---------------------------- MODULE Spec2Model ----------------------------
(***************************************************************************)
(* A model of the static-analysis batch pipeline of analysis.py,           *)
(* metrics.py and utils.py: the three cohort drivers (store_151_analysis,  *)
(* store_231_analysis, store_hamilton_analysis), the loader                *)
(* get_source_codes, the analyzers of metrics.py and the two normalizers.  *)
(*                                                                         *)
(* Numbers.  Python mixes ints and floats in one result list.  Every       *)
(* number of the model is an exact rational <<n, d>> in lowest terms       *)
(* (d > 0); round(x, 2) is Round2, which rounds to hundredths the way      *)
(* Python rounds an exactly represented value (ties to even).  NaN, the    *)
(* value pandas shows for a cell that was never assigned, is <<0, 0>>.     *)
(*                                                                         *)
(* Exceptions.  The code has no try/except other than the one around       *)
(* ast.parse in get_source_codes, so an exception raised anywhere in a     *)
(* driver ends the driver: pc = "aborted" and err names the exception and  *)
(* the function that raised it.  A function that can raise is an operator  *)
(* returning [err |-> "" or the exception, val |-> the value returned].    *)
(***************************************************************************)
EXTENDS Integers, Sequences, FiniteSets, TLC

\* ------------------------------------------------------------------ bounds
\* Number of participant records (rows of the cohort table df).
NumRows == 2
\* Largest number of candidate source files get_files returns for one record.
MaxFiles == 2
\* Largest number of lines in the submit-time file of a Hamilton directory.
MaxSubmits == 2

\* ----------------------------------------------------------------- numbers
RECURSIVE GCD(_, _)
GCD(a, b) == IF b = 0 THEN a ELSE GCD(b, a % b)

\* The rational n/d (n >= 0, d > 0) in lowest terms.
Rat(n, d) == LET g == GCD(n, d) IN <<n \div g, d \div g>>
Q(n) == <<n, 1>>
Zero == <<0, 1>>
One == <<1, 1>>
NaN == <<0, 0>>

QLess(a, b) == a[1] * b[2] < b[1] * a[2]
QAdd(a, b) == Rat(a[1] * b[2] + b[1] * a[2], a[2] * b[2])
QDiv(a, b) == Rat(a[1] * b[2], a[2] * b[1])
IsPositive(a) == a[2] > 0 /\ a[1] > 0

RECURSIVE QSum(_)
QSum(s) == IF s = <<>> THEN Zero ELSE QAdd(Head(s), QSum(Tail(s)))

RECURSIVE QMin(_)
QMin(s) ==
    IF Len(s) = 1 THEN s[1]
    ELSE LET m == QMin(Tail(s)) IN IF QLess(m, s[1]) THEN m ELSE s[1]

RECURSIVE QMax(_)
QMax(s) ==
    IF Len(s) = 1 THEN s[1]
    ELSE LET m == QMax(Tail(s)) IN IF QLess(s[1], m) THEN m ELSE s[1]

\* A round that drops the digits after the hundredths instead of rounding.
Round2_Truncating(q) == Rat((100 * q[1]) \div q[2], 100)

\* Python's round(x, 2) of the exactly represented value x: the nearest
\* hundredth, a tie going to the even hundredth.
Round2(q) ==
    LET x == 100 * q[1]
        k == x \div q[2]
        r == x % q[2]
        up == \/ 2 * r > q[2]
              \/ (2 * r = q[2] /\ k % 2 = 1)
    IN  Rat(IF up THEN k + 1 ELSE k, 100)

\* The element of a Python list at a 0-based index.
At(s, i) == s[i + 1]

Qs(s) == [i \in 1..Len(s) |-> Q(s[i])]

RECURSIVE Concat(_)
Concat(ss) == IF ss = <<>> THEN <<>> ELSE Head(ss) \o Concat(Tail(ss))

\* Sequences of length 0..n over S.
SeqsUpTo(S, n) == UNION {[1..k -> S] : k \in 0..n}

Ok(v) == [err |-> "", val |-> v]
Raise(e) == [err |-> e, val |-> <<>>]

\* statistics.fmean: the arithmetic mean; an empty list raises StatisticsError.
fmean(xs) == QDiv(QSum(xs), Q(Len(xs)))

\* metrics.round_results
round_results(results) == [i \in 1..Len(results) |-> Round2(results[i])]

\* ------------------------------------------------------------ source files
(***************************************************************************)
(* A Python source file as the code sees it.  kind says what reading and   *)
(* parsing it does: "ok" (ast.parse succeeds), "syntax_error" (ast.parse   *)
(* raises SyntaxError), "undecodable" (the bytes are not UTF-8: read()     *)
(* raises UnicodeDecodeError).  The other fields are what the libraries    *)
(* report for the file: radon's raw metrics, pycodestyle's error count,    *)
(* cc_visit's block complexities (cc), the cognitive complexity of each    *)
(* top-level FunctionDef (cog), mi_visit's index and h_visit's totals.     *)
(***************************************************************************)
PyFile(kind, loc, sloc, style, cc, cog) ==
    [kind |-> kind, loc |-> loc, lloc |-> sloc, sloc |-> sloc,
     comments |-> loc - sloc, multi |-> 0, single_comments |-> loc - sloc,
     defs |-> Len(cog), classes |-> 0, style |-> style, cc |-> cc,
     cog |-> cog, mi |-> 100 - 10 * loc,
     hal |-> [volume |-> 8 * sloc, difficulty |-> sloc,
              time |-> 2 * sloc, effort |-> 8 * sloc * sloc]]

\* Two functions, two style errors.
GoodFile == PyFile("ok", 3, 2, 2, <<1, 2>>, <<0, 3>>)
\* One function.
LongFile == PyFile("ok", 2, 2, 1, <<3>>, <<4>>)
\* An empty file: it parses and has no line.
EmptyFile == PyFile("ok", 0, 0, 0, <<>>, <<>>)
\* Statements but no function or class.
PlainFile == PyFile("ok", 1, 1, 0, <<>>, <<>>)
\* Only comments: no source line.
CommentFile == PyFile("ok", 3, 0, 0, <<>>, <<>>)
\* A method in a class: a cc block, but no top-level FunctionDef.
ClassFile == PyFile("ok", 2, 2, 0, <<1>>, <<>>)
BrokenFile == PyFile("syntax_error", 1, 0, 0, <<>>, <<>>)
BinaryFile == PyFile("undecodable", 1, 0, 0, <<>>, <<>>)

\* The files of the directories of the batch runs.
PyFiles == {GoodFile, EmptyFile, BrokenFile, BinaryFile}

\* The files of the unit checks of the loader and the analyzers.
UnitFiles == PyFiles \cup {LongFile, PlainFile, CommentFile, ClassFile}

\* A fixed order of the kinds of file, to list a directory in.
FileOrder ==
    <<GoodFile, LongFile, EmptyFile, PlainFile, CommentFile, ClassFile,
      BrokenFile, BinaryFile>>
Rank(f) == CHOOSE i \in 1..Len(FileOrder) : FileOrder[i] = f

\* ------------------------------------------------- metrics.py, Python path
\* The per-file triple of compute_cyclomatic_complexity's loop body.
FileCC(source_code) ==
    LET complexities == Qs(source_code.cc)
    IN  IF complexities = <<>>
        THEN <<One, One, One>>
        ELSE <<fmean(complexities), QMin(complexities), QMax(complexities)>>

compute_cyclomatic_complexity(source_codes) ==
    LET per == [i \in 1..Len(source_codes) |-> FileCC(source_codes[i])]
        avg_cc == [i \in 1..Len(per) |-> per[i][1]]
        min_cc == [i \in 1..Len(per) |-> per[i][2]]
        max_cc == [i \in 1..Len(per) |-> per[i][3]]
    IN  IF source_codes = <<>>
        THEN Raise("StatisticsError@compute_cyclomatic_complexity")
        ELSE Ok(round_results(<<fmean(avg_cc), QMin(min_cc), QMax(max_cc)>>))

\* pycodestyle re-reads each path from the disk.
check_style_error(paths, disk) ==
    QSum([i \in 1..Len(paths) |-> Q(disk[paths[i]].style)])

SumOf(source_codes, field) ==
    QSum([i \in 1..Len(source_codes) |-> Q(source_codes[i][field])])[1]

compute_raw_metrics(source_codes) ==
    LET loc == SumOf(source_codes, "loc")
        lloc == SumOf(source_codes, "lloc")
        sloc == SumOf(source_codes, "sloc")
        comments == SumOf(source_codes, "comments")
        multi == SumOf(source_codes, "multi")
        single_comments == SumOf(source_codes, "single_comments")
        functions == SumOf(source_codes, "defs")
        classes == SumOf(source_codes, "classes")
    IN  IF sloc = 0
        THEN Raise("ZeroDivisionError@compute_raw_metrics")
        ELSE Ok(<<Q(loc), Q(lloc), Q(sloc), Q(comments), Rat(comments, sloc),
                  Q(multi), Q(single_comments), Q(functions), Q(classes)>>)

compute_maintainability(source_codes) ==
    LET maintainability == [i \in 1..Len(source_codes) |-> Q(source_codes[i].mi)]
    IN  IF source_codes = <<>>
        THEN Raise("StatisticsError@compute_maintainability")
        ELSE Ok(round_results(<<fmean(maintainability), QMin(maintainability),
                                QMax(maintainability)>>))

compute_halstead(source_codes) ==
    LET n == Len(source_codes)
        halstead_volume == [i \in 1..n |-> Q(source_codes[i].hal.volume)]
        halstead_difficulty == [i \in 1..n |-> Q(source_codes[i].hal.difficulty)]
        halstead_time == [i \in 1..n |-> Q(source_codes[i].hal.time)]
        halstead_effort == [i \in 1..n |-> Q(source_codes[i].hal.effort)]
        Triple(xs) == <<fmean(xs), QMin(xs), QMax(xs)>>
    IN  IF source_codes = <<>>
        THEN Raise("StatisticsError@compute_halstead")
        ELSE Ok(round_results(Triple(halstead_volume) \o Triple(halstead_difficulty)
                              \o Triple(halstead_time) \o Triple(halstead_effort)))

\* Every top-level FunctionDef of every file contributes one score; a file
\* without one contributes nothing.
compute_cognitive_complexity(source_codes) ==
    LET complexities ==
            Qs(Concat([i \in 1..Len(source_codes) |-> source_codes[i].cog]))
    IN  IF complexities = <<>>
        THEN Raise("StatisticsError@compute_cognitive_complexity")
        ELSE Ok(round_results(<<fmean(complexities), QMin(complexities),
                                QMax(complexities)>>))

\* The analyzers run in this order and the first exception ends the call.
run_python_analysis(source_codes, paths, disk) ==
    LET style_errors == check_style_error(paths, disk)
        raw_metrics == compute_raw_metrics(source_codes)
        cc == compute_cyclomatic_complexity(source_codes)
        mi == compute_maintainability(source_codes)
        halstead == compute_halstead(source_codes)
        cognitive == compute_cognitive_complexity(source_codes)
    IN  IF raw_metrics.err # "" THEN Raise(raw_metrics.err)
        ELSE IF cc.err # "" THEN Raise(cc.err)
        ELSE IF mi.err # "" THEN Raise(mi.err)
        ELSE IF halstead.err # "" THEN Raise(halstead.err)
        ELSE IF cognitive.err # "" THEN Raise(cognitive.err)
        ELSE Ok(<<style_errors, raw_metrics.val, cc.val, mi.val, halstead.val,
                  cognitive.val>>)

\* ------------------------------------------------------ utils.py, the loader
(***************************************************************************)
(* disk is the directory the driver resolved: the sequence of its          *)
(* candidate files (the files get_files keeps), a file's name being its    *)
(* position.  code_files is the list of names get_files returned.  acc is  *)
(* <<source_codes, paths, skipped>> so far.  Only SyntaxError is caught:   *)
(* read() of an undecodable file raises out of the call.                   *)
(***************************************************************************)
RECURSIVE LoadLoop(_, _, _)
LoadLoop(code_files, disk, acc) ==
    IF code_files = <<>> THEN Ok(acc)
    ELSE LET code_file == Head(code_files)
             source_code == disk[code_file]
         IN  IF source_code.kind = "undecodable"
             THEN Raise("UnicodeDecodeError@get_source_codes")
             ELSE IF source_code.kind = "syntax_error"
             THEN LoadLoop(Tail(code_files), disk,
                           <<acc[1], acc[2], acc[3] + 1>>)
             ELSE LoadLoop(Tail(code_files), disk,
                           <<Append(acc[1], source_code),
                             Append(acc[2], code_file), acc[3]>>)

\* A loader without the ast.parse of lines 146-150: every file it can read
\* is returned as a source.
get_source_codes_Unparsed(code_files, disk) ==
    IF \E i \in 1..Len(code_files) : disk[code_files[i]].kind = "undecodable"
    THEN Raise("UnicodeDecodeError@get_source_codes")
    ELSE Ok(<<[i \in 1..Len(code_files) |-> disk[code_files[i]]], code_files, 0>>)

get_source_codes(code_files, disk) == LoadLoop(code_files, disk, <<<<>>, <<>>, 0>>)

\* get_files: the names of the candidate files of a directory, in walk order.
get_files(disk) == [i \in 1..Len(disk) |-> i]

\* ---------------------------------------------------------- result vectors
\* Number of result columns of the Python schema (0..31 and skipped) and of
\* the Java schema (0..24): len(headers) - 1 - start.
PyVecLen == 33
JavaVecLen == 25

\* results = [0 for _ in range(start, len(headers)-1)]
NewResults(n) == [i \in 0..(n - 1) |-> Zero]

\* A list of assignments results[idx] = val, applied in order; an index
\* outside the list raises IndexError.
RECURSIVE ApplyWrites(_, _, _)
ApplyWrites(results, writes, who) ==
    IF writes = <<>> THEN Ok(results)
    ELSE IF Head(writes)[1] \notin DOMAIN results
    THEN Raise("IndexError@" \o who)
    ELSE ApplyWrites([results EXCEPT ![Head(writes)[1]] = Head(writes)[2]],
                     Tail(writes), who)

\* The assignments of parse_python_analysis, in program order.
PythonWrites(analysis) ==
    LET raw == At(analysis, 1)
        loc == At(raw, 0)
        style == At(analysis, 0)
        metrics == At(analysis, 2) \o At(analysis, 3) \o At(analysis, 4)
                   \o At(analysis, 5)
    IN  <<<<0, loc>>, <<1, At(raw, 4)>>, <<2, style>>,
          <<3, Round2(QDiv(style, loc))>>>>
        \o [i \in 1..Len(metrics) |-> <<(i - 1) + 4, metrics[i]>>]
        \o [i \in 1..3 |-> <<25 + (i - 1), At(raw, (i - 1) + 1)>>]
        \o [i \in 1..4 |-> <<28 + (i - 1), At(raw, (i - 1) + 5)>>]

parse_python_analysis(results, analysis) ==
    IF At(At(analysis, 1), 0) = Zero
    THEN Raise("ZeroDivisionError@parse_python_analysis")
    ELSE ApplyWrites(results, PythonWrites(analysis), "parse_python_analysis")

\* -------------------------------------------------- metrics.py, Java path
(***************************************************************************)
(* A Java source file as the two external tools report it.  empty: the    *)
(* file has no code and multimetric reports {} for it.  loc, ratio, cc and *)
(* the Halstead values are multimetric's per-file metrics, mi the value of *)
(* the maintainability formula of run_multimetric for the file, and pmd    *)
(* the file's PMD violation records: rule and, for a CognitiveComplexity   *)
(* record, the number its description holds.                               *)
(***************************************************************************)
JavaFile(empty, loc, cc, pmd) ==
    [kind |-> "java", empty |-> empty, loc |-> loc, comment_ratio |-> 0,
     cc |-> cc,
     volume |-> 8 * loc, difficulty |-> loc, time |-> 2 * loc,
     effort |-> 8 * loc * loc, mi |-> 100 - 10 * loc, pmd |-> pmd]

\* The numbers PMD's descriptions hold, as text and as int() reads them.
Numerals == <<"0", "1", "2", "3", "4", "5">>
Threshold == "15"
IsNumber(t) == t = Threshold \/ \E n \in 1..Len(Numerals) : Numerals[n] = t
ToInt(t) ==
    IF t = Threshold THEN 15
    ELSE (CHOOSE n \in 1..Len(Numerals) : Numerals[n] = t) - 1

\* A record's description in pieces: "The method 'f' has a cognitive
\* complexity of 5, current threshold is 15".  score is what PMD measured.
Cognitive(n) ==
    [rule |-> "CognitiveComplexity", score |-> n,
     description |-> <<"The method 'f' has a cognitive complexity ", "of ",
                       Numerals[n + 1], ", current threshold is ", Threshold>>]
Violation(r) == [rule |-> r, score |-> 0, description |-> <<"Avoid this">>]

\* Lines 307-308: description.split('of ')[1], then the first run of digits.
ParseScore(description) ==
    LET cut == CHOOSE i \in 1..Len(description) :
                   /\ description[i] = "of "
                   /\ \A j \in 1..(i - 1) : description[j] # "of "
        text == SubSeq(description, cut + 1, Len(description))
        numbers == SelectSeq(text, IsNumber)
    IN  ToInt(numbers[1])

\* One method complex enough for PMD to report its cognitive complexity.
JGoodFile == JavaFile(FALSE, 4, 3, <<Violation("UnusedImports"), Cognitive(5)>>)
\* Simple methods only: PMD reports no CognitiveComplexity record.
JSimpleFile == JavaFile(FALSE, 2, 1, <<Violation("ShortVariable")>>)
JEmptyFile == JavaFile(TRUE, 0, 0, <<>>)
\* Two reported methods with another violation between them.
JBusyFile ==
    JavaFile(FALSE, 3, 2, <<Cognitive(5), Violation("ShortVariable"),
                            Cognitive(2)>>)

JavaFiles == {JGoodFile, JSimpleFile, JEmptyFile}

\* A tally that does not take the cognitive records off the count.
RECURSIVE PmdTally_Counting(_, _)
PmdTally_Counting(files, acc) ==
    IF files = <<>> THEN acc
    ELSE LET violations == Head(files).pmd
             cognitive == SelectSeq(violations,
                              LAMBDA v : v.rule = "CognitiveComplexity")
         IN  PmdTally_Counting(Tail(files),
                 <<acc[1] + Len(violations),
                   acc[2] \o [i \in 1..Len(cognitive) |->
                                Q(ParseScore(cognitive[i].description))]>>)

\* The tally of run_pmd over the files of the tool's report.
RECURSIVE PmdTally(_, _)
PmdTally(files, acc) ==
    IF files = <<>> THEN acc
    ELSE LET violations == Head(files).pmd
             cognitive == SelectSeq(violations,
                              LAMBDA v : v.rule = "CognitiveComplexity")
             count == Len(cognitive)
         IN  PmdTally(Tail(files),
                      <<acc[1] + (Len(violations) - count),
                        acc[2] \o [i \in 1..count |->
                                   Q(ParseScore(cognitive[i].description))]>>)

\* files: the files named by filepaths.txt when the tool runs.  tool_ok is
\* FALSE when PMD fails and its output is not JSON.
run_pmd(files, tool_ok) ==
    IF ~tool_ok THEN Raise("JSONDecodeError@run_pmd")
    ELSE LET t == PmdTally(files, <<0, <<>>>>) IN Ok(<<Q(t[1]), t[2]>>)

\* multimetric's totals are the sums of its per-file values and its stats
\* the mean, min and max over the files that have metrics.
run_multimetric(files, tool_ok) ==
    LET n == Len(files)
        loc == QSum([i \in 1..n |-> Q(files[i].loc)])
        full == SelectSeq(files, LAMBDA f : ~f.empty)
        m == Len(full)
        mi_indices == [i \in 1..m |-> Q(full[i].mi)]
        Stat(field(_)) ==
            LET xs == [i \in 1..m |-> Q(field(full[i]))]
            IN  <<fmean(xs), QMin(xs), QMax(xs)>>
        Cc(f) == f.cc
        Volume(f) == f.volume
        Difficulty(f) == f.difficulty
        Time(f) == f.time
        Effort(f) == f.effort
    IN  IF ~tool_ok THEN Raise("JSONDecodeError@run_multimetric")
        ELSE IF \E i \in 1..m : full[i].loc = 0 \/ full[i].volume = 0
        THEN Raise("ValueError@run_multimetric")
        ELSE IF m = 0 THEN Raise("StatisticsError@run_multimetric")
        ELSE Ok(round_results(
                <<loc, Q(0), fmean(mi_indices), QMin(mi_indices),
                  QMax(mi_indices)>>
                \o Stat(Cc) \o Stat(Volume) \o Stat(Difficulty) \o Stat(Time)
                \o Stat(Effort)))

\* run_pmd reads the manifest; run_multimetric gets the driver's own list.
run_java_analysis(files, manifest_files, pmd_ok, mm_ok) ==
    LET pmd == run_pmd(manifest_files, pmd_ok)
        multimetric == run_multimetric(files, mm_ok)
    IN  IF pmd.err # "" THEN Raise(pmd.err)
        ELSE IF multimetric.err # "" THEN Raise(multimetric.err)
        ELSE Ok(<<At(pmd.val, 0), multimetric.val, At(pmd.val, 1)>>)

\* The assignments of parse_java_analysis up to the cognitive ones, in
\* program order.
JavaWrites(analysis) ==
    LET mm == At(analysis, 1)
        loc == At(mm, 0)
        violations == At(analysis, 0)
    IN  <<<<0, loc>>, <<1, At(mm, 1)>>, <<2, violations>>,
          <<3, Round2(QDiv(violations, loc))>>>>
        \o [i \in 1..3 |-> <<(i - 1) + 4, At(mm, (i - 1) + 5)>>]
        \o [i \in 1..3 |-> <<(i - 1) + 7, At(mm, (i - 1) + 2)>>]
        \o [i \in 1..(Len(mm) - 8) |-> <<(i - 1) + 10, At(mm, (i - 1) + 8)>>]

\* The cognitive figures assigned one position too low: position 21, the
\* last Halstead figure, is assigned twice and position 24 never.
JavaCognitiveWrites_Shifted(analysis) ==
    LET complexities == At(analysis, 2)
    IN  <<<<21, fmean(complexities)>>, <<22, QMin(complexities)>>,
          <<23, QMax(complexities)>>>>

\* The last three assignments: the mean, min and max of PMD's list.
JavaCognitiveWrites(analysis) ==
    LET complexities == At(analysis, 2)
    IN  <<<<22, fmean(complexities)>>, <<23, QMin(complexities)>>,
          <<24, QMax(complexities)>>>>

parse_java_analysis(results, analysis) ==
    IF At(At(analysis, 1), 0) = Zero
    THEN Raise("ZeroDivisionError@parse_java_analysis")
    ELSE LET head == ApplyWrites(results, JavaWrites(analysis),
                                 "parse_java_analysis")
         IN  IF head.err # "" THEN head
             ELSE IF At(analysis, 2) = <<>>
             THEN Raise("StatisticsError@parse_java_analysis")
             ELSE ApplyWrites(head.val, JavaCognitiveWrites(analysis),
                              "parse_java_analysis")

\* --------------------------------------------- the Hamilton source locator
(***************************************************************************)
(* Strings are sequences of one-character strings.  lower() maps the two   *)
(* capitals of the alphabet and leaves every other character alone.        *)
(***************************************************************************)
LowerChar(c) ==
    CASE c = "J" -> "j"
      [] c = "D" -> "d"
      [] c = "A" -> "a"
      [] c = "L" -> "l"
      [] OTHER -> c

Lower(s) == [i \in 1..Len(s) |-> LowerChar(s[i])]

\* str.split(): the maximal runs of non-blank characters.
RECURSIVE SplitFrom(_, _, _)
SplitFrom(s, word, acc) ==
    IF s = <<>> THEN (IF word = <<>> THEN acc ELSE Append(acc, word))
    ELSE IF Head(s) = " "
    THEN SplitFrom(Tail(s), <<>>, IF word = <<>> THEN acc ELSE Append(acc, word))
    ELSE SplitFrom(Tail(s), Append(word, Head(s)), acc)

Split(s) == SplitFrom(s, <<>>, <<>>)

\* email.split('@')[0]
RECURSIVE LocalPart(_)
LocalPart(s) ==
    IF s = <<>> \/ Head(s) = "@" THEN <<>> ELSE <<Head(s)>> \o LocalPart(Tail(s))

IsSubstring(p, s) ==
    \E i \in 0..(Len(s) - Len(p)) : SubSeq(s, i + 1, i + Len(p)) = p

\* re.compile(".*" + tail + "*").match(candidate), tail a non-empty string of
\* letters: the trailing "*" applies to the last letter of tail, so the
\* pattern is any prefix, tail without its last letter, then zero or more
\* of that letter.
RegexMatch(tail, candidate) ==
    IsSubstring(SubSeq(tail, 1, Len(tail) - 1), candidate)

Contains(list, x) == \E i \in 1..Len(list) : list[i] = x

NanName == <<"n", "a", "n">>
Amli == <<"a", "m", "l", "i">>

\* name.split()[0][0] + name.split()[-1]
CandidateKey(name) ==
    LET words == Split(name) IN <<words[1][1]>> \o words[Len(words)]

\* Lines 382-399: the student directory the driver appends to code_dir, or
\* none when no directory name matches.
ResolveStudent(username, usernames) ==
    LET matched == SelectSeq(usernames,
                       LAMBDA u : RegexMatch(Tail(username), u))
    IN  IF Contains(usernames, username)
        THEN [found |-> TRUE, student |-> username]
        ELSE IF Len(matched) = 0 THEN [found |-> FALSE, student |-> <<>>]
        ELSE IF Len(matched) = 1 THEN [found |-> TRUE, student |-> matched[1]]
        ELSE [found |-> TRUE, student |-> Amli]

\* Lines 404-416: the submission folder and the submission count recorded.
\* nsub is the number of lines of submit-time, marker whether the directory
\* lists "last-submit".  The folder "/submit-k/" is [name |-> "submit-", k |-> k].
\* A selection without the last-submit test of lines 413-416.
SelectSubmission_NoMarker(flag, nsub, marker) ==
    IF flag = 1
    THEN [folder |-> [name |-> "submit", k |-> 0], num_submits |-> 1]
    ELSE [folder |-> [name |-> "submit-", k |-> nsub - 1], num_submits |-> nsub]

SelectSubmission(flag, nsub, marker) ==
    IF flag = 1
    THEN [folder |-> [name |-> "submit", k |-> 0], num_submits |-> 1]
    ELSE IF marker
    THEN [folder |-> [name |-> "last-submit", k |-> 0], num_submits |-> nsub]
    ELSE [folder |-> [name |-> "submit-", k |-> nsub - 1], num_submits |-> nsub]

\* ------------------------------------------------------------- loop bodies
\* What one pass of a driver's loop body did: err the exception that ended
\* it (or ""), outcome how it ended, store whether it assigned the result
\* columns of the row, results the list it assigned, writes the positions
\* the normalizer assigned, in program order.
Body(e, outcome, store, results) ==
    [err |-> e, outcome |-> outcome, store |-> store, results |-> results,
     writes |-> <<>>]

Positions(writes) == [i \in 1..Len(writes) |-> writes[i][1]]

(***************************************************************************)
(* The loop body of store_151_analysis (lines 234-252) and of              *)
(* store_hamilton_analysis (lines 419-454) from get_files on, over the     *)
(* directory disk.  check_sources: the Hamilton driver tests source_codes  *)
(* before it runs the analysis and stores the initialized values when no   *)
(* file compiled; store_151_analysis does not.                             *)
(***************************************************************************)
PythonBody(disk, check_sources) ==
    LET code_files == get_files(disk)
        fresh == NewResults(PyVecLen)
        loaded == get_source_codes(code_files, disk)
        source_codes == At(loaded.val, 0)
        paths == At(loaded.val, 1)
        skipped == At(loaded.val, 2)
        results == [fresh EXCEPT ![PyVecLen - 1] = Q(skipped)]
        static_analysis == run_python_analysis(source_codes, paths, disk)
        analysis_results == parse_python_analysis(results, static_analysis.val)
    IN  IF code_files = <<>> THEN Body("", "empty", FALSE, fresh)
        ELSE IF loaded.err # "" THEN Body(loaded.err, "raised", FALSE, fresh)
        ELSE IF check_sources /\ source_codes = <<>>
        THEN Body("", "unparsed", TRUE, results)
        ELSE IF static_analysis.err # ""
        THEN Body(static_analysis.err, "raised", FALSE, results)
        ELSE IF analysis_results.err # ""
        THEN Body(analysis_results.err, "raised", FALSE, results)
        ELSE [Body("", "normalized", TRUE, analysis_results.val) EXCEPT
                !.writes = Positions(PythonWrites(static_analysis.val))]

\* The loop body of store_231_analysis from run_java_analysis on (lines
\* 315-320).  files: the driver's list; manifest_files: the files that
\* filepaths.txt names when PMD runs.
JavaBody(files, manifest_files, pmd_ok, mm_ok) ==
    LET fresh == NewResults(JavaVecLen)
        java_analysis == run_java_analysis(files, manifest_files, pmd_ok, mm_ok)
        analysis_results == parse_java_analysis(fresh, java_analysis.val)
    IN  IF java_analysis.err # ""
        THEN Body(java_analysis.err, "raised", FALSE, fresh)
        ELSE IF analysis_results.err # ""
        THEN Body(analysis_results.err, "raised", FALSE, fresh)
        ELSE [Body("", "normalized", TRUE, analysis_results.val) EXCEPT
                !.writes = Positions(JavaWrites(java_analysis.val)
                                     \o JavaCognitiveWrites(java_analysis.val))]

(***************************************************************************)
(* The directories a batch run may find: up to MaxFiles candidate files.   *)
(* What a loop body does with a directory (the sums, means, minima and     *)
(* maxima, the skip count, the exception) does not depend on the order in  *)
(* which os.walk lists the files, so the batch runs list each directory in *)
(* one order; the unit checks of the loader take every order.  The tables  *)
(* hold the loop body's result for each directory.                         *)
(***************************************************************************)
PyDisks ==
    {d \in SeqsUpTo(PyFiles, MaxFiles) :
        \A i \in 1..(Len(d) - 1) : Rank(d[i]) <= Rank(d[i + 1])}

JavaDisks == SeqsUpTo(JavaFiles, MaxFiles)

Body151 == [disk \in PyDisks |-> PythonBody(disk, FALSE)]
BodyHamilton == [disk \in PyDisks |-> PythonBody(disk, TRUE)]

\* ------------------------------------------------------------------- state
VARIABLES
    driver,     \* which cohort driver runs: "151", "231" or "hamilton"
    sub_num,    \* the submission-policy flag of store_hamilton_analysis
    usernames,  \* the student directory names the Hamilton driver lists
    df,         \* the cohort table: row -> [Q4, username, submit_num, res]
    pc,         \* the driver's position
    row,        \* the row the loop is at
    code_dir,   \* Hamilton: the directory and submission folder resolved
    probe,      \* Hamilton: what the resolved directory holds on disk
    tree,       \* 231: the candidate files of the directory being analyzed
    manifest,   \* the content of filepaths.txt
    new_df,     \* the rows of the table the driver returns
    err,        \* the exception that ended the driver, "" when none
    hist,       \* history: per row, how its pass ended and what it read
    call,       \* unit checks: the function applied and its argument
    ret,        \* unit checks: what the call returned
    world,      \* repeated and concurrent runs: what the disk holds per row
    run,        \* repeated runs: 1 in the first run of the driver, then 2
    first       \* repeated runs: what the first run left

vars == <<driver, sub_num, usernames, df, pc, row, code_dir, probe, tree,
          manifest, new_df, err, hist, call, ret, world, run, first>>

Rows == 1..NumRows

VecLen == IF driver = "231" THEN JavaVecLen ELSE PyVecLen

\* "Jane Doe", a survey row without a name, and an email address.
JaneDoe == <<"J", "a", "n", "e", " ", "D", "o", "e">>
Email == <<"J", "d", "o", "e", "@", "x">>

\* The student directories of the batch runs.
Students == <<<<"j", "a", "d", "o", "e">>>>

NoDir == [student |-> <<>>, folder |-> [name |-> "", k |-> 0]]
NoProbe == [exists |-> FALSE, nsub |-> 0, marker |-> FALSE]
NoManifest == [owner |-> 0, files |-> <<>>]
NoCall == [fn |-> "", arg |-> <<>>]
NoWorld == <<>>
NoOutput == [pc |-> "", df |-> <<>>, new_df |-> {}, err |-> "", table |-> ""]

\* A row before the driver ran: the result columns do not exist yet.
NewRow(q4, n) ==
    [Q4 |-> q4, username |-> <<>>, submit_num |-> NaN,
     res |-> [i \in 0..(n - 1) |-> NaN]]

\* pmd_of: the row whose manifest PMD read in the pass; writes: the
\* positions the normalizer assigned.
NewHist ==
    [outcome |-> "new", visits |-> 0, files |-> 0, ok |-> 0, broken |-> 0,
     ok_loc |-> 0, pmd_of |-> 0, writes |-> <<>>]

\* History only: the files of a directory that parse, those with a syntax
\* error, and the line total of those that parse.
OkFiles(disk) == SelectSeq(disk, LAMBDA f : f.kind = "ok")
BrokenFiles(disk) == SelectSeq(disk, LAMBDA f : f.kind = "syntax_error")
OkLoc(disk) == SumOf(OkFiles(disk), "loc")

Init ==
    /\ driver \in {"151", "231", "hamilton"}
    /\ sub_num \in (IF driver = "hamilton" THEN {1, -1} ELSE {1})
    /\ usernames = (IF driver = "hamilton" THEN Students ELSE <<>>)
    /\ df \in [Rows -> IF driver = "hamilton"
                       THEN {NewRow(JaneDoe, PyVecLen), NewRow(NanName, PyVecLen)}
                       ELSE {NewRow(Email, VecLen)}]
    /\ pc = "init"
    /\ row = 0
    /\ code_dir = NoDir
    /\ probe = NoProbe
    /\ tree = <<>>
    /\ manifest = NoManifest
    /\ new_df = {}
    /\ err = ""
    /\ hist = [r \in Rows |-> NewHist]
    /\ call = NoCall
    /\ ret = <<>>
    /\ world = NoWorld
    /\ run = 1
    /\ first = NoOutput

\* -------------------------------------------------------------- the drivers
\* Lines 221-226, 285-290, 360-361: the result columns are set to 0.0 (the
\* last one, skipped, only by store_231_analysis) and the email drivers
\* derive every row's username.
InitColumns ==
    /\ pc = "init"
    /\ df' = [r \in Rows |->
                [df[r] EXCEPT
                   !.res = [i \in DOMAIN df[r].res |->
                              IF driver = "231" \/ i < VecLen - 1
                              THEN Zero ELSE df[r].res[i]],
                   !.username = IF driver = "hamilton" THEN df[r].username
                                ELSE Lower(LocalPart(df[r].Q4))]]
    /\ pc' = "row"
    /\ row' = 1
    /\ UNCHANGED <<driver, sub_num, usernames, code_dir, probe, tree, manifest,
                   new_df, err, hist, call, ret, world, run, first>>

\* The end of a pass with the results list kept from row to row: what the
\* pass stored is in the next row as well.
EndPass_Carry(b, disk, table) ==
    /\ df' = IF b.store
             THEN [r \in DOMAIN table |->
                     IF r \in {row, row + 1}
                     THEN [table[r] EXCEPT !.res = b.results] ELSE table[r]]
             ELSE table
    /\ hist' = [hist EXCEPT ![row] =
                  [outcome |-> b.outcome, visits |-> @.visits + 1,
                   files |-> Len(disk), ok |-> Len(OkFiles(disk)),
                   broken |-> Len(BrokenFiles(disk)), ok_loc |-> OkLoc(disk),
                   pmd_of |-> IF driver = "231" THEN manifest.owner ELSE 0,
                   writes |-> b.writes]]
    /\ err' = b.err
    /\ pc' = IF b.err # "" THEN "aborted" ELSE "row"
    /\ row' = IF b.err # "" THEN row ELSE row + 1

\* The end of one pass of the loop body b over directory disk: the row's
\* columns assigned when the body stored them, then the next row, or the
\* driver ended by the exception.
EndPass(b, disk, table) ==
    /\ df' = IF b.store THEN [table EXCEPT ![row].res = b.results] ELSE table
    /\ hist' = [hist EXCEPT ![row] =
                  [outcome |-> b.outcome, visits |-> @.visits + 1,
                   files |-> Len(disk), ok |-> Len(OkFiles(disk)),
                   broken |-> Len(BrokenFiles(disk)), ok_loc |-> OkLoc(disk),
                   pmd_of |-> IF driver = "231" THEN manifest.owner ELSE 0,
                   writes |-> b.writes]]
    /\ err' = b.err
    /\ pc' = IF b.err # "" THEN "aborted" ELSE "row"
    /\ row' = IF b.err # "" THEN row ELSE row + 1

\* store_151_analysis, lines 229-252: one row, its directory holding disk.
Pass151(disk) ==
    /\ driver = "151"
    /\ pc = "row"
    /\ row \in Rows
    /\ EndPass(Body151[disk], disk, df)
    /\ UNCHANGED <<driver, sub_num, usernames, code_dir, probe, tree, manifest,
                   new_df, call, ret, world, run, first>>

Row151 == \E disk \in PyDisks : Pass151(disk)

\* A pass that ends at a `continue` before any file was read.
Continue(outcome, table) ==
    /\ df' = table
    /\ hist' = [hist EXCEPT ![row] =
                  [@ EXCEPT !.outcome = outcome, !.visits = @ + 1]]
    /\ row' = row + 1
    /\ pc' = "row"

\* store_231_analysis, lines 296-313: the candidate files are listed and
\* their paths written to filepaths.txt.  disk: what the directory holds.
Stage(disk) ==
    /\ driver = "231"
    /\ pc = "row"
    /\ row \in Rows
    /\ LET code_files == get_files(disk)
       IN  IF code_files = <<>>
           THEN /\ Continue("empty", df)
                /\ UNCHANGED <<tree, manifest>>
           ELSE /\ manifest' = [owner |-> row, files |-> code_files]
                /\ tree' = disk
                /\ pc' = "staged"
                /\ UNCHANGED <<df, hist, row>>
    /\ UNCHANGED <<driver, sub_num, usernames, code_dir, probe, new_df, err,
                   call, ret, world, run, first>>

Stage231 == \E disk \in JavaDisks : Stage(disk)

\* store_231_analysis, lines 315-320: both tools run, PMD over the files the
\* manifest names, and the row is filled.  pmd_ok, mm_ok: whether each
\* tool prints a report.
Analyze(pmd_ok, mm_ok) ==
    /\ driver = "231"
    /\ pc = "staged"
    /\ LET manifest_files ==
               [i \in 1..Len(manifest.files) |-> tree[manifest.files[i]]]
       IN  EndPass(JavaBody(tree, manifest_files, pmd_ok, mm_ok), tree, df)
    /\ tree' = <<>>
    /\ UNCHANGED <<driver, sub_num, usernames, code_dir, probe, manifest,
                   new_df, call, ret, world, run, first>>

Analyze231 == \E pmd_ok \in BOOLEAN, mm_ok \in BOOLEAN : Analyze(pmd_ok, mm_ok)

\* The name is read from the username column once the driver has filled it.
RowName_FromKey(record) ==
    IF record.username # <<>> THEN record.username ELSE Lower(record.Q4)

\* Line 369: name = str(df["Q4"][row]).lower()
RowName(record) == Lower(record.Q4)

\* store_hamilton_analysis, lines 371-418: the name is resolved to a student
\* directory and the submission folder chosen.  exists, nsub and marker are
\* what the disk holds at the resolved directory.
ResolveAt(exists, nsub, marker) ==
    /\ driver = "hamilton"
    /\ pc = "row"
    /\ row \in Rows
    /\ LET name == RowName(df[row])
           username == CandidateKey(name)
           named == [df EXCEPT ![row].username = username]
           found == ResolveStudent(username, usernames)
           sel == SelectSubmission(sub_num, nsub, marker)
       IN  IF name = NanName
           THEN /\ Continue("missing_name", df)
                /\ UNCHANGED <<code_dir, probe>>
           ELSE IF ~found.found
           THEN /\ Continue("not_found", named)
                /\ UNCHANGED <<code_dir, probe>>
           ELSE IF ~exists
           THEN /\ Continue("no_dir", named)
                /\ UNCHANGED <<code_dir, probe>>
           ELSE /\ code_dir' = [student |-> found.student,
                                folder |-> sel.folder]
                /\ probe' = [exists |-> TRUE, nsub |-> nsub,
                             marker |-> marker]
                /\ df' = [named EXCEPT
                            ![row].submit_num = Q(sel.num_submits)]
                /\ pc' = "selected"
                /\ UNCHANGED <<hist, row>>
    /\ UNCHANGED <<driver, sub_num, usernames, tree, manifest, new_df, err,
                   call, ret, world, run, first>>

\* A directory that does not exist has no submissions and no marker.
Resolve ==
    \E exists \in BOOLEAN, nsub \in 1..MaxSubmits, marker \in BOOLEAN :
        /\ ~exists => (nsub = 1 /\ ~marker)
        /\ ResolveAt(exists, nsub, marker)

\* store_hamilton_analysis, lines 419-454: the files of the chosen folder
\* are listed, loaded and analyzed, the folder holding disk.
PassHamilton(disk) ==
    /\ driver = "hamilton"
    /\ pc = "selected"
    /\ EndPass(BodyHamilton[disk], disk, df)
    /\ code_dir' = NoDir
    /\ probe' = NoProbe
    /\ UNCHANGED <<driver, sub_num, usernames, tree, manifest, new_df, call,
                   ret, world, run, first>>

RowHamilton == \E disk \in PyDisks : PassHamilton(disk)

\* Lines 255, 327, 461: after the last row, the rows with loc > 0 are
\* returned.
Filter ==
    /\ pc = "row"
    /\ row = NumRows + 1
    /\ new_df' = {r \in Rows : IsPositive(df[r].res[0])}
    /\ pc' = "done"
    /\ UNCHANGED <<driver, sub_num, usernames, df, row, code_dir, probe, tree,
                   manifest, err, hist, call, ret, world, run, first>>

Next ==
    \/ InitColumns
    \/ Row151
    \/ Stage231
    \/ Analyze231
    \/ Resolve
    \/ RowHamilton
    \/ Filter

Spec == Init /\ [][Next]_vars

\* ----------------------------------------------------- the locator, alone
(***************************************************************************)
(* The Hamilton driver up to the choice of the submission folder, over     *)
(* more names and more listings of the students directory than the batch   *)
(* runs take.                                                              *)
(***************************************************************************)
AlLi == <<"A", "l", " ", "L", "i">>

Listings ==
    {<<<<"j", "d", "o", "e">>>>,
     <<<<"j", "a", "d", "o", "e">>>>,
     <<<<"j", "a", "d", "o", "e">>, <<"b", "d", "o", "e">>>>,
     <<<<"m", "d", "o", "d", "d">>>>,
     <<<<"j", "a", "d", "o", "e">>, <<"m", "d", "o", "d", "d">>>>,
     <<Amli>>}

LocatorInit ==
    /\ driver = "hamilton"
    /\ sub_num \in {1, -1}
    /\ usernames \in Listings
    /\ df \in [Rows -> {NewRow(JaneDoe, PyVecLen), NewRow(AlLi, PyVecLen),
                        NewRow(NanName, PyVecLen)}]
    /\ pc = "init"
    /\ row = 0
    /\ code_dir = NoDir
    /\ probe = NoProbe
    /\ tree = <<>>
    /\ manifest = NoManifest
    /\ new_df = {}
    /\ err = ""
    /\ hist = [r \in Rows |-> NewHist]
    /\ call = NoCall
    /\ ret = <<>>
    /\ world = NoWorld
    /\ run = 1
    /\ first = NoOutput

LocatorNext == InitColumns \/ Resolve

SpecLocator == LocatorInit /\ [][LocatorNext]_vars

\* ------------------------------------------- the loader and the analyzers
(***************************************************************************)
(* get_source_codes and the two complexity analyzers applied to every      *)
(* directory and every set of parsed files of up to MaxFiles files.        *)
(***************************************************************************)
UnitDisks == SeqsUpTo(UnitFiles, MaxFiles)
UnitSources == SeqsUpTo({f \in UnitFiles : f.kind = "ok"}, MaxFiles)
\* The files of a PMD report.
UnitReports == SeqsUpTo(JavaFiles \cup {JBusyFile}, MaxFiles)

UnitInit ==
    /\ call \in {[fn |-> "get_source_codes", arg |-> d] : d \in UnitDisks}
          \cup {[fn |-> f, arg |-> d] :
                  f \in {"compute_cyclomatic_complexity",
                         "compute_cognitive_complexity"},
                  d \in UnitSources}
          \cup {[fn |-> "run_pmd", arg |-> d] : d \in UnitReports}
    /\ ret = <<>>
    /\ driver = "none"
    /\ sub_num = 1
    /\ usernames = <<>>
    /\ df = <<>>
    /\ pc = "unit"
    /\ row = 0
    /\ code_dir = NoDir
    /\ probe = NoProbe
    /\ tree = <<>>
    /\ manifest = NoManifest
    /\ new_df = {}
    /\ err = ""
    /\ hist = <<>>
    /\ world = NoWorld
    /\ run = 1
    /\ first = NoOutput

UnitFrame ==
    UNCHANGED <<driver, sub_num, usernames, df, pc, row, code_dir, probe, tree,
                manifest, new_df, err, hist, call, world, run, first>>

CallLoader ==
    /\ call.fn = "get_source_codes"
    /\ ret = <<>>
    /\ ret' = <<get_source_codes(get_files(call.arg), call.arg)>>
    /\ UnitFrame

CallCyclomatic ==
    /\ call.fn = "compute_cyclomatic_complexity"
    /\ ret = <<>>
    /\ ret' = <<compute_cyclomatic_complexity(call.arg)>>
    /\ UnitFrame

CallCognitive ==
    /\ call.fn = "compute_cognitive_complexity"
    /\ ret = <<>>
    /\ ret' = <<compute_cognitive_complexity(call.arg)>>
    /\ UnitFrame

\* run_pmd when PMD prints the report call.arg for the files of the manifest.
CallPmd ==
    /\ call.fn = "run_pmd"
    /\ ret = <<>>
    /\ ret' = <<run_pmd(call.arg, TRUE)>>
    /\ UnitFrame

UnitNext == CallLoader \/ CallCyclomatic \/ CallCognitive \/ CallPmd

SpecUnit == UnitInit /\ [][UnitNext]_vars

\* ------------------------------------------- record pipelines, interleaved
(***************************************************************************)
(* The loop body of store_231_analysis run for several rows at once, each  *)
(* row's pass a pipeline of two steps: lines 302-313 write filepaths.txt,  *)
(* lines 315-320 run the tools and fill the row.  The file is named by a   *)
(* fixed relative path, so the pipelines of one working directory write    *)
(* and read the same file.  world[r].disk is the directory of row r; a     *)
(* pipeline's position is hist[r].outcome: "new", "staged", then how it    *)
(* ended.                                                                  *)
(***************************************************************************)
Site(disk, exists, nsub, marker, pmd_ok, mm_ok) ==
    [disk |-> disk, exists |-> exists, nsub |-> nsub, marker |-> marker,
     pmd_ok |-> pmd_ok, mm_ok |-> mm_ok]

JavaSites == {Site(disk, TRUE, 1, FALSE, TRUE, TRUE) : disk \in JavaDisks}

ConcurrentInit ==
    /\ driver = "231"
    /\ sub_num = 1
    /\ usernames = <<>>
    /\ df = [r \in Rows |-> NewRow(Email, JavaVecLen)]
    /\ pc = "init"
    /\ row = 0
    /\ code_dir = NoDir
    /\ probe = NoProbe
    /\ tree = <<>>
    /\ manifest = NoManifest
    /\ new_df = {}
    /\ err = ""
    /\ hist = [r \in Rows |-> NewHist]
    /\ call = NoCall
    /\ ret = <<>>
    /\ world \in [Rows -> JavaSites]
    /\ run = 1
    /\ first = NoOutput

ConcurrentFrame ==
    UNCHANGED <<driver, sub_num, usernames, pc, row, code_dir, probe, tree,
                new_df, call, ret, world, run, first>>

\* Lines 296-313 for row r.
StageOf(r) ==
    /\ pc = "row"
    /\ hist[r].outcome = "new"
    /\ LET code_files == get_files(world[r].disk)
       IN  IF code_files = <<>>
           THEN /\ hist' = [hist EXCEPT ![r].outcome = "empty",
                                        ![r].visits = @ + 1]
                /\ UNCHANGED manifest
           ELSE /\ hist' = [hist EXCEPT ![r].outcome = "staged"]
                /\ manifest' = [owner |-> r, files |-> code_files]
    /\ UNCHANGED <<df, err>>
    /\ ConcurrentFrame

\* Lines 315-320 for row r: PMD reads the files filepaths.txt names now,
\* multimetric the list the pipeline built.
AnalyzeOf(r) ==
    /\ pc = "row"
    /\ hist[r].outcome = "staged"
    /\ LET files == world[r].disk
           theirs == world[manifest.owner].disk
           manifest_files ==
               [i \in 1..Len(manifest.files) |-> theirs[manifest.files[i]]]
           b == JavaBody(files, manifest_files, world[r].pmd_ok,
                         world[r].mm_ok)
       IN  /\ df' = IF b.store THEN [df EXCEPT ![r].res = b.results] ELSE df
           /\ hist' = [hist EXCEPT ![r] =
                         [outcome |-> b.outcome, visits |-> @.visits + 1,
                          files |-> Len(files), ok |-> Len(OkFiles(files)),
                          broken |-> 0, ok_loc |-> OkLoc(files),
                          pmd_of |-> manifest.owner, writes |-> b.writes]]
           /\ err' = IF b.err # "" THEN b.err ELSE err
    /\ UNCHANGED manifest
    /\ ConcurrentFrame

StageAny == \E r \in Rows : StageOf(r)
AnalyzeAny == \E r \in Rows : AnalyzeOf(r)

ConcurrentNext == InitColumns \/ StageAny \/ AnalyzeAny

SpecConcurrent == ConcurrentInit /\ [][ConcurrentNext]_vars

\* ------------------------------------------------------- a driver run twice
(***************************************************************************)
(* A driver called a second time while the disk stays as it was: world[r]  *)
(* is what the disk holds for row r (the files of its directory, whether   *)
(* the directory exists, its submissions and marker, whether each tool     *)
(* prints a report), fixed for both runs.  The second call gets the table  *)
(* the first call assigned to in place ("mutated") or a new copy of the    *)
(* cohort table ("fresh").  filepaths.txt stays on the disk between them.  *)
(***************************************************************************)
RerunDisks ==
    {d \in PyDisks : Len(d) <= 1 \/ d = <<GoodFile, BrokenFile>>}

PySites ==
    {Site(d, TRUE, MaxSubmits, FALSE, TRUE, TRUE) : d \in RerunDisks}
    \cup {Site(<<GoodFile>>, TRUE, 1, TRUE, TRUE, TRUE),
          Site(<<>>, FALSE, 1, FALSE, TRUE, TRUE)}

JavaRerunSites ==
    {Site(<<f>>, TRUE, 1, FALSE, TRUE, TRUE) : f \in JavaFiles}
    \cup {Site(<<>>, TRUE, 1, FALSE, TRUE, TRUE),
          Site(<<JGoodFile>>, TRUE, 1, FALSE, FALSE, TRUE),
          Site(<<JGoodFile>>, TRUE, 1, FALSE, TRUE, FALSE)}

RerunInit ==
    /\ driver \in {"151", "231", "hamilton"}
    /\ sub_num \in (IF driver = "hamilton" THEN {1, -1} ELSE {1})
    /\ usernames = (IF driver = "hamilton" THEN Students ELSE <<>>)
    /\ df \in [Rows -> IF driver = "hamilton"
                       THEN {NewRow(JaneDoe, PyVecLen), NewRow(NanName, PyVecLen)}
                       ELSE {NewRow(Email, VecLen)}]
    /\ pc = "init"
    /\ row = 0
    /\ code_dir = NoDir
    /\ probe = NoProbe
    /\ tree = <<>>
    /\ manifest = NoManifest
    /\ new_df = {}
    /\ err = ""
    /\ hist = [r \in Rows |-> NewHist]
    /\ call = NoCall
    /\ ret = <<>>
    /\ world \in [Rows -> IF driver = "231" THEN JavaRerunSites ELSE PySites]
    /\ run = 1
    /\ first = NoOutput

Fixed151 == row \in Rows /\ Pass151(world[row].disk)
FixedStage == row \in Rows /\ Stage(world[row].disk)
FixedAnalyze ==
    /\ manifest.owner \in Rows
    /\ Analyze(world[manifest.owner].pmd_ok, world[manifest.owner].mm_ok)
FixedResolve ==
    /\ row \in Rows
    /\ ResolveAt(world[row].exists, world[row].nsub, world[row].marker)
FixedHamilton == row \in Rows /\ PassHamilton(world[row].disk)

\* The driver is called again once the first call has returned or raised.
Rerun ==
    /\ run = 1
    /\ pc \in {"done", "aborted"}
    /\ \E table \in {"mutated", "fresh"} :
          /\ first' = [pc |-> pc, df |-> df, new_df |-> new_df, err |-> err,
                       table |-> table]
          /\ df' = IF table = "mutated" THEN df
                   ELSE [r \in Rows |-> NewRow(df[r].Q4, VecLen)]
    /\ run' = 2
    /\ pc' = "init"
    /\ row' = 0
    /\ err' = ""
    /\ new_df' = {}
    /\ tree' = <<>>
    /\ hist' = [r \in Rows |-> NewHist]
    /\ UNCHANGED <<driver, sub_num, usernames, code_dir, probe, manifest, call,
                   ret, world>>

RerunNext ==
    \/ InitColumns
    \/ Fixed151
    \/ FixedStage
    \/ FixedAnalyze
    \/ FixedResolve
    \/ FixedHamilton
    \/ Filter
    \/ Rerun

SpecRerun == RerunInit /\ [][RerunNext]_vars

\* ------------------------------------------------------------------ claims
\* What the claims speak of, stated apart from the code's own computation.
Visited(r) == hist[r].visits > 0
RowLoc(r) == df[r].res[0]
\* Every candidate file of the row failed to parse, or there was none.
ZeroLoadable(r) == Visited(r) /\ hist[r].files = hist[r].broken
FirstWord(q4) == Lower(Split(q4)[1])
LastName(q4) == Lower(Split(q4)[Len(Split(q4))])
Key(q4) == <<FirstWord(q4)[1]>> \o LastName(q4)
\* The student directories whose name contains the whole last name.
Holders(q4) == {i \in 1..Len(usernames) : IsSubstring(LastName(q4), usernames[i])}
Hundredths(q) == (q[1] * 100) \div q[2]
AnalysisFailures ==
    {"ZeroDivisionError@compute_raw_metrics",
     "StatisticsError@compute_cyclomatic_complexity",
     "StatisticsError@compute_maintainability",
     "StatisticsError@compute_halstead",
     "StatisticsError@compute_cognitive_complexity",
     "JSONDecodeError@run_pmd", "JSONDecodeError@run_multimetric",
     "ValueError@run_multimetric", "StatisticsError@run_multimetric",
     "StatisticsError@parse_java_analysis"}

\* C1: a record none of whose candidate files loads (no candidate, or every
\* one fails to parse) never ends the driver, never gets a non-zero loc and
\* has no row in the table returned.
C1_ZeroLoadableDropped ==
    \A r \in Rows :
        ZeroLoadable(r) =>
            /\ hist[r].outcome # "raised"
            /\ ~IsPositive(RowLoc(r))
            /\ (pc = "done" => r \notin new_df)

\* C2: a record whose analysis fails (empty score set, zero denominator,
\* tool failure or malformed tool output) does not stop the batch.
C2_FailureDoesNotStopBatch ==
    \A r \in Rows :
        (hist[r].outcome = "raised" /\ err \in AnalysisFailures) =>
            pc # "aborted"

\* C3: when the driver has stopped, every record was visited exactly once
\* and ended in a terminal outcome, and the table returned, filtered only
\* then, is exactly the set of records with loc > 0.
C3_AllVisitedThenFiltered ==
    /\ pc \in {"done", "aborted"} =>
          \A r \in Rows :
              /\ hist[r].visits = 1
              /\ hist[r].outcome \in {"missing_name", "not_found", "no_dir",
                                      "empty", "unparsed", "normalized"}
    /\ pc = "done" => new_df = {r \in Rows : IsPositive(RowLoc(r))}
    /\ pc # "done" => new_df = {}

C5_NoFunctionScoresOne ==
    (/\ ret # <<>>
     /\ call.fn \in {"compute_cyclomatic_complexity",
                     "compute_cognitive_complexity"}
     /\ call.arg # <<>>
     /\ \A i \in 1..Len(call.arg) :
           call.arg[i].cc = <<>> /\ call.arg[i].cog = <<>>)
    => (ret[1].err = "" /\ ret[1].val = <<One, One, One>>)

\* C6: when no student directory equals the key and two or more directory
\* names contain the last name, no directory is selected.
C6_AmbiguousNotSelected ==
    pc = "selected" =>
        ~(/\ ~Contains(usernames, Key(df[row].Q4))
          /\ Cardinality(Holders(df[row].Q4)) >= 2)

\* C7: the key is first initial + last name, lower-cased; when no directory
\* equals it, a directory is selected only if exactly one directory name
\* contains the whole last name, and it is that one; with none the record
\* is not found.
C7_SubstringFallback ==
    /\ \A r \in Rows : df[r].username # <<>> => df[r].username = Key(df[r].Q4)
    /\ (pc = "selected" /\ ~Contains(usernames, Key(df[row].Q4))) =>
          /\ Holders(df[row].Q4) # {}
          /\ \A i \in Holders(df[row].Q4) :
                Cardinality(Holders(df[row].Q4)) = 1
                    => code_dir.student = usernames[i]
    /\ \A r \in Rows :
          hist[r].outcome = "not_found" => Holders(df[r].Q4) = {}

C9_StylePerLineRounded ==
    /\ err \notin {"ZeroDivisionError@parse_python_analysis",
                   "ZeroDivisionError@parse_java_analysis"}
    /\ \A r \in Rows :
          hist[r].outcome = "normalized" =>
              LET loc == df[r].res[0]
                  style == df[r].res[2]
                  rate == df[r].res[3]
                  d == 100 * style[1] - Hundredths(rate) * loc[1]
              IN  /\ IsPositive(loc)
                  /\ loc[2] = 1
                  /\ style[2] = 1
                  /\ 100 % rate[2] = 0
                  /\ 2 * (IF d < 0 THEN -d ELSE d) <= loc[1]

C9_Witness ==
    \E r \in Rows :
        /\ hist[r].outcome = "normalized"
        /\ IsPositive(df[r].res[2])
        /\ (100 * df[r].res[2][1]) % df[r].res[0][1] # 0

\* C10: get_source_codes returns for every listing: one source and one
\* path, at the same position, per file that parses, in listing order, one
\* skip per file that does not, loaded + skipped = candidates.
C10_LoaderAlwaysReturns ==
    (ret # <<>> /\ call.fn = "get_source_codes") =>
        /\ ret[1].err = ""
        /\ LET source_codes == At(ret[1].val, 0)
               paths == At(ret[1].val, 1)
               skipped == At(ret[1].val, 2)
           IN  /\ Len(source_codes) = Len(paths)
               /\ Len(source_codes) + skipped = Len(call.arg)
               /\ \A k \in 1..Len(paths) : call.arg[paths[k]] = source_codes[k]
               /\ \A k \in 1..(Len(paths) - 1) : paths[k] < paths[k + 1]

\* C11: whenever the tools ran for a record, PMD read the manifest that was
\* written for that record, and the tallies stored in the row are those of
\* the record's own files.
C11_OwnManifest ==
    \A r \in Rows :
        hist[r].pmd_of # 0 =>
            /\ hist[r].pmd_of = r
            /\ (hist[r].outcome = "normalized" =>
                   df[r].res[2] =
                       Q(PmdTally(world[r].disk, <<0, <<>>>>)[1]))

\* C12: in a normalized row the vector has one field per result column, and
\* the normalizer assigned each of positions 0..31 (Python) or 0..24 (Java)
\* exactly once and no other (as many assignments as positions, and every
\* position among them); position 32 of the Python vector is the
\* skipped-file count the driver set.
C12_FillTotal ==
    \A r \in Rows :
        hist[r].outcome = "normalized" =>
            LET w == hist[r].writes
                n == IF driver = "231" THEN JavaVecLen ELSE PyVecLen - 1
            IN  /\ DOMAIN df[r].res = 0..(VecLen - 1)
                /\ Len(w) = n
                /\ {w[i] : i \in 1..Len(w)} = 0..(n - 1)
                /\ \A i \in 0..(VecLen - 1) : df[r].res[i] # NaN
                /\ driver # "231" => df[r].res[PyVecLen - 1] = Q(hist[r].broken)

C12_Witness ==
    /\ driver = "231"
    /\ \E r \in Rows :
          /\ hist[r].outcome = "normalized"
          /\ Len(hist[r].writes) = JavaVecLen
          /\ IsPositive(df[r].res[JavaVecLen - 1])

\* C13: when the second run of a driver over the same disk has ended, on
\* the table the first run assigned to or on a new copy of the cohort
\* table, it has ended the way the first did and left the same table: the
\* same rows returned, with the same values.
C13_SecondRunSame ==
    (run = 2 /\ pc \in {"done", "aborted"}) =>
        /\ pc = first.pc
        /\ err = first.err
        /\ new_df = first.new_df
        /\ \A r \in Rows : df[r] = first.df[r]

C13_Witness ==
    /\ run = 2
    /\ pc = "done"
    /\ first.table = "mutated"
    /\ \E r \in new_df : hist[r].outcome = "normalized" /\ hist[r].broken > 0
    /\ \E r \in Rows : r \notin new_df

\* C14: run_pmd returns as violation count the number of records of the
\* report whose rule is not CognitiveComplexity, and as complexities the
\* number PMD measured of each CognitiveComplexity record, in report order;
\* every record is in one of the two.
C14_PmdTally ==
    (ret # <<>> /\ call.fn = "run_pmd") =>
        LET records == Concat([i \in 1..Len(call.arg) |-> call.arg[i].pmd])
            IsCognitive(v) == v.rule = "CognitiveComplexity"
            IsOther(v) == v.rule # "CognitiveComplexity"
            measured == SelectSeq(records, IsCognitive)
            violations == At(ret[1].val, 0)
            complexities == At(ret[1].val, 1)
        IN  /\ ret[1].err = ""
            /\ violations = Q(Len(SelectSeq(records, IsOther)))
            /\ complexities = [i \in 1..Len(measured) |-> Q(measured[i].score)]
            /\ Q(Len(records)) = QAdd(violations, Q(Len(complexities)))

C14_Witness ==
    /\ ret # <<>>
    /\ call.fn = "run_pmd"
    /\ Len(call.arg) > 1
    /\ Len(At(ret[1].val, 1)) > 2
    /\ IsPositive(At(ret[1].val, 0))

\* C15: once the directory of a record is resolved, the submit_num of its
\* row is the number of entries of the directory's submit-time file,
\* whichever folder was selected.
C15_SubmitNumIsCount ==
    pc = "selected" => df[row].submit_num = Q(probe.nsub)

\* The metric columns of a row that was not analyzed (not reached yet, no
\* name, directory not found, no candidate file, no file that compiles, or
\* its analysis raised) are all at the 0 they were initialized to, and the
\* size and the skip count of a normalized Python row are those of its own
\* directory.
C16_Untouched ==
    \A r \in Rows :
        /\ (pc # "init" /\ hist[r].outcome # "normalized") =>
              \A i \in 0..(VecLen - 1) :
                  (driver = "231" \/ i < VecLen - 1) => df[r].res[i] = Zero
        /\ (driver # "231" /\ hist[r].outcome = "normalized") =>
              /\ df[r].res[0] = Q(hist[r].ok_loc)
              /\ df[r].res[PyVecLen - 1] = Q(hist[r].broken)

\* After the columns are initialized, a step changes no row but the one
\* the loop is at.
C16_OwnRowOnly ==
    pc # "init" => \A r \in Rows : r # row => df'[r] = df[r]

=============================================================================
